---- MODULE Spec2Model ----
(***************************************************************************)
(* A model of punkscience/sanitize: the Windows folder-name sanitizer       *)
(* (internal/sanitizer), the depth-ordered directory walk                   *)
(* (internal/walker), the renaming of one folder (internal/processor) and   *)
(* the run that ties them together (internal/service).                      *)
(*                                                                          *)
(* A string is a sequence of code points (Go runes); a byte of invalid      *)
(* UTF-8 is the rune 65533, which is what []rune(name) makes of it.         *)
(***************************************************************************)
EXTENDS Integers, Sequences, FiniteSets, TLC

VARIABLES
    name,              \* sanitizer: the string handed to SanitizeName
    out,               \* sanitizer: SanitizeName(name)
    out2,              \* sanitizer: SanitizeName(out)
    spc,               \* sanitizer: "input" | "sanitized" | "resanitized" | "off"
    kind,              \* sanitizer: how the input was drawn, "seed" | "long" | "rune"
    extra,             \* sanitizer: characters added to the drawn input so far
    dirs,              \* file system: the paths of the directories below the root
    files,             \* file system: the paths of the regular files below the root
    noread,            \* file system: <<path, kind>> of the directories that cannot be listed
    skipInaccessible,  \* FileSystemWalker.skipInaccessible
    maxDepth,          \* FileSystemWalker.maxDepth
    queue,             \* filepath.Walk: the paths still to visit, next first
    folders,           \* collectDirectories: folders, and then the result of Walk
    collectErrors,     \* collectDirectories: collectErrors
    wpc,               \* walker: "setup" | "walking" | "done" | "failed" | "off"
    rootKind,          \* file system: what the root path names, "dir" | "file" | "missing"
    norename,          \* file system: the directories os.Rename refuses to move
    moved,             \* file system: <<path before the run, path now>> of the moved directories
    procErr,           \* service: the folder paths the injected processor fails on
    dryRun,            \* service: the dryRun argument of SanitizeDirectory
    maxCollisionRetries,  \* FileSystemProcessor.maxCollisionRetries
    idx,               \* SanitizeDirectory: the folders processed so far
    processedCount,    \* SanitizeDirectory: processedCount
    renamedCount,      \* SanitizeDirectory: renamedCount
    errorCount,        \* SanitizeDirectory: errorCount
    skippedCount,      \* SanitizeDirectory: skippedCount
    progressCalls,     \* reporter: the ReportProgress calls received
    errorCalls,        \* reporter: the ReportError calls received
    completeCalls,     \* reporter: the ReportComplete calls received
    results,           \* processor: what each ProcessRename call did and returned
    ret,               \* SanitizeDirectory: the error returned, "running" before it returns
    svc                \* service: "running" | "returned" | "off"

vars == <<name, out, out2, spc, kind, extra, dirs, files, noread, skipInaccessible,
          maxDepth, queue, folders, collectErrors, wpc, rootKind, norename, moved,
          procErr, dryRun, maxCollisionRetries, idx, processedCount, renamedCount,
          errorCount, skippedCount, progressCalls, errorCalls, completeCalls, results,
          ret, svc>>

sanVars == <<name, out, out2, spc, kind, extra>>
fsVars == <<dirs, files, noread>>
walkVars == <<dirs, files, noread, skipInaccessible, maxDepth, queue, folders,
              collectErrors, wpc>>
svcVars == <<rootKind, norename, moved, procErr, dryRun, maxCollisionRetries, idx,
             processedCount, renamedCount, errorCount, skippedCount, progressCalls,
             errorCalls, completeCalls, results, ret, svc>>

(***************************************************************************)
(* Bounds of the model.                                                     *)
(***************************************************************************)
MaxExtra == 2     \* characters appended or prepended to a seed
MaxTail == 2      \* characters appended behind a padded (long) input
PadSpread == 2    \* padded inputs reach maxNameLength + PadSpread characters
MaxEntries == 4   \* directories and files below the root

(***************************************************************************)
(* Go's unicode tables, on the code points the model draws from: all of     *)
(* U+0000..U+017F and a sample of the other scripts and categories.         *)
(***************************************************************************)
SampleRunes ==
    (1040..1103)                    \* Cyrillic A..ya
    \cup {20320, 22909}             \* CJK ni, hao
    \cup {1575, 1576, 1581, 1585, 1605}  \* Arabic letters
    \cup (1632..1641) \cup {65297}  \* Arabic-Indic digits, fullwidth 1
    \cup {8195, 8232, 12288}        \* em space, line separator, ideographic space
    \cup {8212, 8220, 12289}        \* em dash, left double quote, ideographic comma
    \cup {769, 8364, 9731, 65533, 128512}  \* combining acute, euro, snowman, U+FFFD, emoji

Runes == (0..383) \cup SampleRunes

IsUpper(r) ==
    \/ r \in 65..90
    \/ r \in (192..214) \cup (216..222)
    \/ r \in 256..311 /\ r % 2 = 0
    \/ r \in 313..328 /\ r % 2 = 1
    \/ r \in 330..375 /\ r % 2 = 0
    \/ r = 376
    \/ r \in 377..382 /\ r % 2 = 1
    \/ r \in 1040..1071

IsLetter(r) ==
    \/ r \in (65..90) \cup (97..122)
    \/ r \in {170, 181, 186}
    \/ r \in (192..214) \cup (216..246) \cup (248..255)
    \/ r \in 256..383
    \/ r \in 1040..1103
    \/ r \in {20320, 22909, 1575, 1576, 1581, 1585, 1605}

IsDigit(r) == r \in (48..57) \cup (1632..1641) \cup {65297}

\* White_Space, as unicode.IsSpace and strings.TrimSpace read it.
whiteSpace == (9..13) \cup {32, 133, 160, 8195, 8232, 12288}

IsSpace(r) == r \in whiteSpace

IsPunct(r) ==
    \/ r \in (33..35) \cup (37..42) \cup (44..47) \cup {58, 59, 63, 64}
    \/ r \in (91..93) \cup {95, 123, 125}
    \/ r \in {161, 167, 171, 182, 183, 187, 191}
    \/ r \in {8212, 8220, 12289}

(***************************************************************************)
(* internal/sanitizer: WindowsSanitizer                                     *)
(***************************************************************************)
invalidChars == <<60, 62, 58, 34, 124, 63, 42, 92, 47>>   \* < > : " | ? * \ /

reservedNames ==
    { <<67, 79, 78>>, <<80, 82, 78>>, <<65, 85, 88>>, <<78, 85, 76>>,  \* CON PRN AUX NUL
      <<67, 79, 77, 49>>, <<67, 79, 77, 50>>, <<67, 79, 77, 51>>,      \* COM1..COM9
      <<67, 79, 77, 52>>, <<67, 79, 77, 53>>, <<67, 79, 77, 54>>,
      <<67, 79, 77, 55>>, <<67, 79, 77, 56>>, <<67, 79, 77, 57>>,
      <<76, 80, 84, 49>>, <<76, 80, 84, 50>>, <<76, 80, 84, 51>>,      \* LPT1..LPT9
      <<76, 80, 84, 52>>, <<76, 80, 84, 53>>, <<76, 80, 84, 54>>,
      <<76, 80, 84, 55>>, <<76, 80, 84, 56>>, <<76, 80, 84, 57>> }

maxNameLength == 255

emptyPlaceholder == <<95, 101, 109, 112, 116, 121, 95>>   \* "_empty_"

ellipsis == <<46, 46, 46>>                                \* "..."

\* controlCharsRegex.ReplaceAllString(name, ""): drop every [\x00-\x1F].
removeControlChars(s) == SelectSeq(s, LAMBDA r : ~(r \in 0..31))

containsRune(slice, r) == \E i \in 1..Len(slice) : slice[i] = r

\* The map literal of unicodeLatinToASCII, as <<key, value>> pairs.
replacements ==
    { <<192, 65>>, <<193, 65>>, <<194, 65>>, <<195, 65>>, <<196, 65>>, <<197, 65>>,
      <<198, 65>>, <<199, 67>>, <<200, 69>>, <<201, 69>>, <<202, 69>>, <<203, 69>>,
      <<204, 73>>, <<205, 73>>, <<206, 73>>, <<207, 73>>, <<208, 68>>, <<209, 78>>,
      <<210, 79>>, <<211, 79>>, <<212, 79>>, <<213, 79>>, <<214, 79>>, <<216, 79>>,
      <<217, 85>>, <<218, 85>>, <<219, 85>>, <<220, 85>>, <<221, 89>>, <<222, 84>>,
      <<223, 115>>, <<224, 97>>, <<225, 97>>, <<226, 97>>, <<227, 97>>, <<228, 97>>,
      <<229, 97>>, <<230, 97>>, <<231, 99>>, <<232, 101>>, <<233, 101>>, <<234, 101>>,
      <<235, 101>>, <<236, 105>>, <<237, 105>>, <<238, 105>>, <<239, 105>>, <<240, 100>>,
      <<241, 110>>, <<242, 111>>, <<243, 111>>, <<244, 111>>, <<245, 111>>, <<246, 111>>,
      <<248, 111>>, <<249, 117>>, <<250, 117>>, <<251, 117>>, <<252, 117>>, <<253, 121>>,
      <<254, 116>>, <<255, 121>> }

unicodeLatinToASCII(r) ==
    IF \E p \in replacements : p[1] = r
    THEN (CHOOSE p \in replacements : p[1] = r)[2]
    ELSE 0

unicodeExtendedLatinToASCII(r) ==
    CASE r >= 256 /\ r <= 261 -> (IF r % 2 = 0 THEN 65 ELSE 97)    \* A a
      [] r >= 262 /\ r <= 269 -> (IF r % 2 = 0 THEN 67 ELSE 99)    \* C c
      [] r >= 270 /\ r <= 273 -> (IF r % 2 = 0 THEN 68 ELSE 100)   \* D d
      [] r >= 274 /\ r <= 283 -> (IF r % 2 = 0 THEN 69 ELSE 101)   \* E e
      [] OTHER -> (IF IsUpper(r) THEN 65 ELSE 97)

\* A unicodeToASCII whose fallback knows letters only.
unicodeToASCIILettersOnly(r) ==
    IF r >= 192 /\ r <= 221 THEN unicodeLatinToASCII(r)
    ELSE IF r >= 224 /\ r <= 255 THEN unicodeLatinToASCII(r)
    ELSE IF r >= 256 /\ r <= 383 THEN unicodeExtendedLatinToASCII(r)
    ELSE IF IsLetter(r) THEN (IF IsUpper(r) THEN 65 ELSE 97)
    ELSE 0

\* The switch takes its first true case: 192..221 is 'À'..'Ý', 224..255 is
\* 'à'..'ÿ'; the runes 222 and 223 lie between the two ranges.
unicodeToASCII(r) ==
    IF r >= 192 /\ r <= 221 THEN unicodeLatinToASCII(r)
    ELSE IF r >= 224 /\ r <= 255 THEN unicodeLatinToASCII(r)
    ELSE IF r >= 256 /\ r <= 383 THEN unicodeExtendedLatinToASCII(r)
    ELSE IF IsLetter(r) THEN (IF IsUpper(r) THEN 65 ELSE 97)
    ELSE IF IsDigit(r) THEN 48
    ELSE IF IsSpace(r) THEN 32
    ELSE IF IsPunct(r) THEN 95
    ELSE 0

\* A faulty processRune: the forbidden characters are not replaced.
processRuneKeepsInvalid(r) ==
    IF r > 127
    THEN (IF unicodeToASCII(r) # 0 THEN unicodeToASCII(r) ELSE 95)
    ELSE r

\* A faulty processRune: the 0 of unicodeToASCII is appended as it is.
processRuneNoFallback(r) ==
    IF containsRune(invalidChars, r) THEN 95
    ELSE IF r > 127 THEN unicodeToASCII(r) ELSE r

processRune(r) ==
    IF containsRune(invalidChars, r) THEN 95
    ELSE IF r > 127
         THEN (IF unicodeToASCII(r) # 0 THEN unicodeToASCII(r) ELSE 95)
         ELSE r

processCharacters(s) == [i \in 1..Len(s) |-> processRune(s[i])]

\* strings.TrimLeft(s, cutset) and strings.TrimRight(s, cutset), the cutset a
\* set of runes: k is the length of the longest prefix (suffix) inside cutset.
TrimLeft(s, cutset) ==
    LET k == CHOOSE k \in 0..Len(s) :
                 /\ \A j \in 1..k : s[j] \in cutset
                 /\ k = Len(s) \/ s[k + 1] \notin cutset
    IN  SubSeq(s, k + 1, Len(s))

TrimRight(s, cutset) ==
    LET k == CHOOSE k \in 0..Len(s) :
                 /\ \A j \in (Len(s) - k + 1)..Len(s) : s[j] \in cutset
                 /\ k = Len(s) \/ s[Len(s) - k] \notin cutset
    IN  SubSeq(s, 1, Len(s) - k)

\* strings.TrimSpace: trims the runes unicode.IsSpace holds of.
TrimSpace(s) == TrimRight(TrimLeft(s, whiteSpace), whiteSpace)

\* strings.ToUpper, on the ASCII text that reaches it.
ToUpper(s) == [i \in 1..Len(s) |-> IF s[i] \in 97..122 THEN s[i] - 32 ELSE s[i]]

\* A faulty reserved-name step: the name is looked up without upper-casing.
reservedRuleCaseSensitive(s) ==
    IF s \in reservedNames THEN Append(s, 95) ELSE s

\* The reserved-name step: name + "_" when the upper-cased name is reserved.
reservedRule(s) ==
    IF ToUpper(s) \in reservedNames THEN Append(s, 95) ELSE s

\* A faulty length step: the cut keeps maxNameLength characters, not three fewer.
lengthRuleKeepsMax(s) ==
    IF Len(s) > maxNameLength
    THEN SubSeq(s, 1, maxNameLength) \o ellipsis
    ELSE s

\* The length step: len(name) counts bytes, and every rune is ASCII by now.
lengthRule(s) ==
    IF Len(s) > maxNameLength
    THEN SubSeq(s, 1, maxNameLength - 3) \o ellipsis
    ELSE s

\* A faulty applyWindowsRules: no placeholder after the periods are trimmed.
applyWindowsRulesNoRecheck(s) ==
    LET trimmed == TrimSpace(s) IN
    IF trimmed = <<>> THEN emptyPlaceholder
    ELSE lengthRule(reservedRule(TrimRight(trimmed, {46, 32})))

applyWindowsRules(s) ==
    LET trimmed == TrimSpace(s) IN
    IF trimmed = <<>> THEN emptyPlaceholder
    ELSE LET stripped == TrimRight(trimmed, {46, 32}) IN
         IF stripped = <<>> THEN emptyPlaceholder
         ELSE LET limited == lengthRule(reservedRule(stripped)) IN
              IF TrimSpace(limited) = <<>> THEN emptyPlaceholder ELSE limited

SanitizeName(s) ==
    IF s = <<>> THEN emptyPlaceholder
    ELSE applyWindowsRules(processCharacters(removeControlChars(s)))

(***************************************************************************)
(* The inputs SanitizeName is applied to.  Seeds are the names of the test  *)
(* suite and the README plus the edge cases around them; a seed is extended *)
(* by up to MaxExtra characters, or padded to a length around               *)
(* maxNameLength and then extended by up to MaxTail characters; every code  *)
(* point of Runes is also sanitized as a one-character name.                *)
(***************************************************************************)
Seeds ==
    { <<>>,
      <<86, 97, 108, 105, 100>>,                          \* Valid
      <<77, 121, 32, 68, 111, 99, 115>>,                  \* My Docs
      <<98, 97, 100, 60, 99, 104, 97, 114, 115, 62>>,     \* bad<chars>
      <<60, 62, 58, 34, 124, 63, 42, 92, 47>>,            \* <>:"|?*\/
      <<102, 111, 108, 100, 101, 114, 1, 31>>,            \* folder\x01\x1f
      <<99, 97, 102, 233>>,                               \* cafe with e-acute
      <<110, 97, 239, 118, 101>>,                         \* naive with i-diaeresis
      <<114, 233, 115, 117, 109, 233>>,                   \* resume with e-acute twice
      <<102, 111, 108, 100, 101, 114, 32, 32, 32>>,       \* folder and three spaces
      <<102, 111, 108, 100, 101, 114, 46, 46, 46>>,       \* folder...
      <<102, 111, 108, 100, 101, 114, 46, 32, 46, 32>>,   \* folder. . (trailing space)
      <<67, 79, 78>>, <<99, 111, 110>>, <<67, 111, 110>>, \* CON con Con
      <<67, 79, 77, 49>>, <<99, 111, 109, 49>>,           \* COM1 com1
      <<76, 80, 84, 49>>, <<108, 112, 116, 57>>,          \* LPT1 lpt9
      <<80, 82, 78>>, <<65, 85, 88>>, <<110, 117, 108>>,  \* PRN AUX nul
      <<67, 79, 78, 83, 79, 76, 69>>,                     \* CONSOLE
      <<67, 79, 77>>, <<67, 79, 77, 49, 48>>,             \* COM COM10
      <<67, 79, 78, 46, 116, 120, 116>>,                  \* CON.txt
      <<67, 79, 78, 95>>, <<199, 79, 78>>,                \* CON_ and C-cedilla ON
      <<32, 32, 32>>, <<46, 46, 46>>, <<1, 2, 3>>,        \* spaces, periods, controls
      <<32, 46, 32>>, <<46, 1, 32>>,                      \* mixed periods, spaces, controls
      <<223>>, <<222>>, <<198, 230>>, <<209, 241>>,       \* sharp s, Thorn, AE ae, N n tilde
      <<256, 257, 258, 259>>,                             \* A a with macron, breve
      <<1052, 1086, 1089, 1082, 1074, 1072>>,             \* Moskva in Cyrillic
      <<1055, 1088, 1080, 1074, 1077, 1090>>,             \* Privet in Cyrillic
      <<20320, 22909>>,                                   \* ni hao
      <<127>>, <<97, 127, 98>>,                           \* DEL, a DEL b
      <<97>>, <<60>>, <<47, 92>>,                         \* a, <, /\
      <<95, 101, 109, 112, 116, 121, 95>>,                \* _empty_
      <<97, 46, 98>>, <<215, 247>> }                      \* a.b, multiplication and division sign

\* The characters a seed is extended with.
Alphabet == {97, 78, 49, 32, 46, 95, 60, 1, 127, 233, 223, 160}

\* The characters put in front of a seed.
HeadAlphabet == {32, 46, 1, 97}

\* The seeds that are padded, the character they are padded with and the
\* characters put behind the padding.
PadSeeds == { <<>>, <<97>>, <<32, 32, 32>>, <<67, 79, 78>>, <<60>>, <<99, 97, 102, 233>> }
PadChars == {97, 60, 46}
TailAlphabet == {97, 46, 32, 1}
\* The padded lengths: around the limit, and the 300 of the test suite.
PadLengths == ((maxNameLength - 3)..(maxNameLength + PadSpread)) \cup {300}

Repeat(c, n) == [i \in 1..n |-> c]

walkOff ==
    /\ dirs = {}
    /\ files = {}
    /\ noread = {}
    /\ skipInaccessible = FALSE
    /\ maxDepth = 0
    /\ queue = <<>>
    /\ folders = <<>>
    /\ collectErrors = <<>>
    /\ wpc = "off"

\* No run of the service: an existing root directory, nothing injected.
svcOff ==
    /\ rootKind = "dir"
    /\ norename = {}
    /\ moved = {}
    /\ procErr = {}
    /\ dryRun = FALSE
    /\ maxCollisionRetries = 0
    /\ idx = 0
    /\ processedCount = 0
    /\ renamedCount = 0
    /\ errorCount = 0
    /\ skippedCount = 0
    /\ progressCalls = <<>>
    /\ errorCalls = <<>>
    /\ completeCalls = <<>>
    /\ results = <<>>
    /\ ret = "running"
    /\ svc = "off"

InitSanitize ==
    /\ \/ kind = "seed" /\ name \in Seeds
       \/ kind = "rune" /\ name \in {<<r>> : r \in Runes}
    /\ out = <<>>
    /\ out2 = <<>>
    /\ spc = "input"
    /\ extra = 0
    /\ walkOff
    /\ svcOff

\* The caller's name grows by one character at its end.
AppendChar(c) ==
    /\ spc = "input"
    /\ \/ kind = "seed" /\ extra < MaxExtra /\ c \in Alphabet
       \/ kind = "long" /\ extra < MaxTail /\ c \in TailAlphabet
    /\ name' = Append(name, c)
    /\ extra' = extra + 1
    /\ UNCHANGED <<out, out2, spc, kind, walkVars, svcVars>>

\* The caller's name grows by one character at its front.
PrependChar(c) ==
    /\ spc = "input"
    /\ kind = "seed" /\ extra < MaxExtra /\ c \in HeadAlphabet
    /\ name' = <<c>> \o name
    /\ extra' = extra + 1
    /\ UNCHANGED <<out, out2, spc, kind, walkVars, svcVars>>

\* The caller's name is padded with c up to n characters.
PadName(c, n) ==
    /\ spc = "input"
    /\ kind = "seed" /\ extra = 0 /\ name \in PadSeeds
    /\ n > Len(name)
    /\ name' = name \o Repeat(c, n - Len(name))
    /\ kind' = "long"
    /\ UNCHANGED <<out, out2, spc, extra, walkVars, svcVars>>

\* result := s.SanitizeName(name)
CallSanitize ==
    /\ spc = "input"
    /\ out' = SanitizeName(name)
    /\ spc' = "sanitized"
    /\ UNCHANGED <<name, out2, kind, extra, walkVars, svcVars>>

\* again := s.SanitizeName(result)
CallAgain ==
    /\ spc = "sanitized"
    /\ out2' = SanitizeName(out)
    /\ spc' = "resanitized"
    /\ UNCHANGED <<name, out, kind, extra, walkVars, svcVars>>

NextSanitize ==
    \/ \E c \in Alphabet \cup TailAlphabet : AppendChar(c)
    \/ \E c \in HeadAlphabet : PrependChar(c)
    \/ \E c \in PadChars, n \in PadLengths : PadName(c, n)
    \/ CallSanitize
    \/ CallAgain

SpecSanitize == InitSanitize /\ [][NextSanitize]_vars

(***************************************************************************)
(* internal/walker: FileSystemWalker over a file system of directories and  *)
(* files.  A path is a string with '/' (47) as filepath.Separator; paths    *)
(* are clean, as filepath.Walk builds them with filepath.Join.              *)
(***************************************************************************)
rootPath == <<47, 114>>   \* "/r"

\* The names given to directories and to files: a, b. (trailing period), f.
DirNames == { <<97>>, <<98, 46>> }
FileNames == { <<102>> }

\* The maxDepth settings the walker is constructed with (0 = unlimited).
DepthLimits == {0, 1, 2}

\* filepath.Join(dir, name) of a clean dir and a single name.
Join(dir, nm) == dir \o <<47>> \o nm

\* The index of the last separator of a path.
lastSeparator(path) ==
    CHOOSE i \in 1..Len(path) :
        path[i] = 47 /\ \A j \in (i + 1)..Len(path) : path[j] # 47

\* filepath.Base and filepath.Dir of a clean path below the root.
Base(path) == SubSeq(path, lastSeparator(path) + 1, Len(path))
Dir(path) == SubSeq(path, 1, lastSeparator(path) - 1)

\* Go's < on strings: bytewise lexicographic (the names are ASCII).
StrLess(a, b) ==
    \E k \in 0..Len(a) :
        /\ k <= Len(b)
        /\ \A i \in 1..k : a[i] = b[i]
        /\ \/ k = Len(a) /\ k < Len(b)
           \/ k < Len(a) /\ k < Len(b) /\ a[k + 1] < b[k + 1]

\* Whether root followed by a separator is a proper prefix of path.
isBelow(path, root) ==
    /\ Len(path) > Len(root) + 1
    /\ SubSeq(path, 1, Len(root)) = root
    /\ path[Len(root) + 1] = 47

\* A depth that counts the separators only.
calculateDepthNoPlusOne(path, root) ==
    IF path = root \/ ~isBelow(path, root) THEN 0
    ELSE LET relPath == SubSeq(path, Len(root) + 2, Len(path))
         IN  Cardinality({i \in 1..Len(relPath) : relPath[i] = 47})

\* calculateDepth: filepath.Rel(root, path), then separators + 1; Rel of the
\* root itself is "." and a path Rel cannot relate to the root gives 0.
calculateDepth(path, root) ==
    IF path = root \/ ~isBelow(path, root) THEN 0
    ELSE LET relPath == SubSeq(path, Len(root) + 2, Len(path))
         IN  Cardinality({i \in 1..Len(relPath) : relPath[i] = 47}) + 1

\* The FolderInfo literal of processWalkPath and extractFolderInfoFromPath.
extractFolderInfoFromPath(path, root) ==
    [Path |-> path, Name |-> Base(path), Depth |-> calculateDepth(path, root),
     Parent |-> Dir(path)]

\* A callback that records a skipped directory as a folder, too.
processWalkPathAddsSkipped(path, isDir, err, root, fl, ce) ==
    IF err # "none"
    THEN IF path # root
         THEN [folders |-> Append(fl, extractFolderInfoFromPath(path, root)),
               collectErrors |-> Append(ce, <<IF skipInaccessible /\ err = "perm"
                                               THEN "permission denied"
                                               ELSE "error accessing", path>>),
               ret |-> "SkipDir"]
         ELSE [folders |-> fl,
               collectErrors |-> IF skipInaccessible /\ err = "perm"
                                 THEN Append(ce, <<"permission denied", path>>) ELSE ce,
               ret |-> "SkipDir"]
    ELSE IF isDir /\ path # root
         THEN IF maxDepth > 0 /\ calculateDepth(path, root) > maxDepth
              THEN [folders |-> fl, collectErrors |-> ce, ret |-> "SkipDir"]
              ELSE [folders |-> Append(fl, extractFolderInfoFromPath(path, root)),
                    collectErrors |-> ce, ret |-> "nil"]
         ELSE [folders |-> fl, collectErrors |-> ce, ret |-> "nil"]

\* processWalkPath: one call of the filepath.Walk callback; the result holds
\* the two slices it appends to and the error it returns.
processWalkPath(path, isDir, err, root, fl, ce) ==
    IF err # "none"
    THEN IF skipInaccessible /\ err = "perm"
         THEN [folders |-> fl, collectErrors |-> Append(ce, <<"permission denied", path>>),
               ret |-> "SkipDir"]
         ELSE IF path # root
              THEN [folders |-> Append(fl, extractFolderInfoFromPath(path, root)),
                    collectErrors |-> Append(ce, <<"error accessing", path>>),
                    ret |-> "SkipDir"]
              ELSE [folders |-> fl, collectErrors |-> ce, ret |-> "SkipDir"]
    ELSE IF isDir /\ path # root
         THEN IF maxDepth > 0 /\ calculateDepth(path, root) > maxDepth
              THEN [folders |-> fl, collectErrors |-> ce, ret |-> "SkipDir"]
              ELSE [folders |-> Append(fl, extractFolderInfoFromPath(path, root)),
                    collectErrors |-> ce, ret |-> "nil"]
         ELSE [folders |-> fl, collectErrors |-> ce, ret |-> "nil"]

\* A faulty less function: shallower folders first.
folderLessShallowFirst(a, b) ==
    IF a.Depth # b.Depth THEN a.Depth < b.Depth ELSE StrLess(a.Path, b.Path)

\* The less function of sortFoldersByDepth: deeper first, then by path.
folderLess(a, b) ==
    IF a.Depth # b.Depth THEN a.Depth > b.Depth ELSE StrLess(a.Path, b.Path)

\* sort.Slice on a short slice is insertion sort: each element moves left
\* while it is less than the one before it.
RECURSIVE insertFolder(_, _)
insertFolder(sorted, x) ==
    IF sorted = <<>> \/ ~folderLess(x, sorted[Len(sorted)])
    THEN Append(sorted, x)
    ELSE Append(insertFolder(SubSeq(sorted, 1, Len(sorted) - 1), x), sorted[Len(sorted)])

RECURSIVE sortFoldersByDepth(_)
sortFoldersByDepth(fl) ==
    IF fl = <<>> THEN <<>>
    ELSE insertFolder(sortFoldersByDepth(SubSeq(fl, 1, Len(fl) - 1)), fl[Len(fl)])

\* readDirNames: the entries of a directory, sorted by name.
RECURSIVE sortPaths(_)
sortPaths(S) ==
    IF S = {} THEN <<>>
    ELSE LET first == CHOOSE x \in S : \A y \in S \ {x} : StrLess(x, y)
         IN  <<first>> \o sortPaths(S \ {first})

readDirNames(path) == sortPaths({e \in dirs \cup files : Dir(e) = path})

readError(path) ==
    IF \E e \in noread : e[1] = path
    THEN (CHOOSE e \in noread : e[1] = path)[2]
    ELSE "none"

sanitizeOff ==
    /\ name = <<>>
    /\ out = <<>>
    /\ out2 = <<>>
    /\ spc = "off"
    /\ kind = "off"
    /\ extra = 0

InitWalk ==
    /\ dirs = {}
    /\ files = {}
    /\ noread = {}
    /\ skipInaccessible = FALSE
    /\ maxDepth = 0
    /\ queue = <<>>
    /\ folders = <<>>
    /\ collectErrors = <<>>
    /\ wpc = "setup"
    /\ sanitizeOff
    /\ svcOff

\* Before the run: a directory is created in the root or in a directory.
Mkdir(parent, nm) ==
    /\ wpc = "setup"
    /\ rootKind = "dir"
    /\ parent \in dirs \cup {rootPath}
    /\ Cardinality(dirs) + Cardinality(files) < MaxEntries
    /\ Join(parent, nm) \notin dirs \cup files
    /\ dirs' = dirs \cup {Join(parent, nm)}
    /\ UNCHANGED <<files, noread, skipInaccessible, maxDepth, queue, folders,
                   collectErrors, wpc, sanVars, svcVars>>

\* Before the run: a regular file is created in the root or in a directory.
Mkfile(parent, nm) ==
    /\ wpc = "setup"
    /\ rootKind = "dir"
    /\ parent \in dirs \cup {rootPath}
    /\ Cardinality(dirs) + Cardinality(files) < MaxEntries
    /\ Join(parent, nm) \notin dirs \cup files
    /\ files' = files \cup {Join(parent, nm)}
    /\ UNCHANGED <<dirs, noread, skipInaccessible, maxDepth, queue, folders,
                   collectErrors, wpc, sanVars, svcVars>>

\* Before the run: one directory is made unreadable, listing it fails with a
\* permission error ("perm") or with another error ("other").
MakeUnreadable(path, errKind) ==
    /\ wpc = "setup"
    /\ rootKind = "dir"
    /\ path \in dirs \cup {rootPath}
    /\ noread = {}
    /\ noread' = {<<path, errKind>>}
    /\ UNCHANGED <<dirs, files, skipInaccessible, maxDepth, queue, folders,
                   collectErrors, wpc, sanVars, svcVars>>

\* A validateRootPath that does not look at what kind of entry the root is.
validateRootPathNoDirCheck ==
    IF rootKind = "missing" THEN "path not accessible" ELSE "nil"

\* validateRootPath: os.Stat of the root must succeed and name a directory.
validateRootPath ==
    IF rootKind = "missing" THEN "path not accessible"
    ELSE IF rootKind # "dir" THEN "path is not a directory"
    ELSE "nil"

\* NewFileSystemWalker(skip, limit) and the start of Walk(rootPath):
\* validateRootPath passes and filepath.Walk begins at the root.
StartWalk(skip, limit) ==
    /\ wpc = "setup"
    /\ validateRootPath = "nil"
    /\ skipInaccessible' = skip
    /\ maxDepth' = limit
    /\ queue' = <<rootPath>>
    /\ folders' = <<>>
    /\ collectErrors' = <<>>
    /\ wpc' = "walking"
    /\ UNCHANGED <<fsVars, sanVars, svcVars>>

\* A walk that calls the callback for a directory before listing it and a
\* second time, with the error, when the listing fails.
VisitNextCallsTwice ==
    /\ wpc = "walking"
    /\ queue # <<>>
    /\ LET path == Head(queue)
           isDir == path \notin files
           err == IF isDir THEN readError(path) ELSE "none"
           first == processWalkPath(path, isDir, "none", rootPath, folders, collectErrors)
           r == IF isDir /\ err # "none" /\ first.ret = "nil"
                THEN processWalkPath(path, isDir, err, rootPath, first.folders,
                                     first.collectErrors)
                ELSE first
           rest == IF isDir /\ err = "none" /\ r.ret = "nil"
                   THEN readDirNames(path) \o Tail(queue)
                   ELSE Tail(queue)
       IN  /\ queue' = rest
           /\ collectErrors' = r.collectErrors
           /\ IF rest = <<>>
              THEN folders' = sortFoldersByDepth(r.folders) /\ wpc' = "done"
              ELSE folders' = r.folders /\ wpc' = "walking"
    /\ UNCHANGED <<fsVars, skipInaccessible, maxDepth, sanVars, svcVars>>

\* One step of filepath.Walk: the next path is listed (a directory) and handed
\* to processWalkPath with the listing's error; its entries are visited next
\* unless the listing failed or the callback returned SkipDir.  After the last
\* path collectDirectories returns and Walk sorts the folders.
VisitNext ==
    /\ wpc = "walking"
    /\ queue # <<>>
    /\ LET path == Head(queue)
           isDir == path \notin files
           err == IF isDir THEN readError(path) ELSE "none"
           r == processWalkPath(path, isDir, err, rootPath, folders, collectErrors)
           rest == IF isDir /\ err = "none" /\ r.ret = "nil"
                   THEN readDirNames(path) \o Tail(queue)
                   ELSE Tail(queue)
       IN  /\ queue' = rest
           /\ collectErrors' = r.collectErrors
           /\ IF rest = <<>>
              THEN folders' = sortFoldersByDepth(r.folders) /\ wpc' = "done"
              ELSE folders' = r.folders /\ wpc' = "walking"
    /\ UNCHANGED <<fsVars, skipInaccessible, maxDepth, sanVars, svcVars>>

NextWalk ==
    \/ \E parent \in dirs \cup {rootPath}, nm \in DirNames : Mkdir(parent, nm)
    \/ \E parent \in dirs \cup {rootPath}, nm \in FileNames : Mkfile(parent, nm)
    \/ \E path \in dirs \cup {rootPath}, errKind \in {"perm", "other"} :
           MakeUnreadable(path, errKind)
    \/ \E skip \in BOOLEAN, limit \in DepthLimits : StartWalk(skip, limit)
    \/ VisitNext

SpecWalk == InitWalk /\ [][NextWalk]_vars

(***************************************************************************)
(* internal/processor: FileSystemProcessor, on the file system of the walk. *)
(***************************************************************************)
\* NewFileSystemProcessor(n): the retry limit the processor is built with.
NewFileSystemProcessor(n) == IF n <= 0 THEN 1000 ELSE n

\* The limits handed to NewFileSystemProcessor: 0 (the default applies) and 1.
RetryCaps == {0, 1}

\* strconv's decimal digits of a counter, as %d prints it.
RECURSIVE Itoa(_)
Itoa(n) == IF n < 10 THEN <<48 + n>> ELSE Append(Itoa(n \div 10), 48 + (n % 10))

\* A filepath.Ext that finds no extension in any name.
ExtNone(nm) == <<>>

\* filepath.Ext of a name: from its last '.' on, empty without a '.'.
Ext(nm) ==
    IF \E i \in 1..Len(nm) : nm[i] = 46
    THEN LET i == CHOOSE i \in 1..Len(nm) :
                      nm[i] = 46 /\ \A j \in (i + 1)..Len(nm) : nm[j] # 46
         IN  SubSeq(nm, i, Len(nm))
    ELSE <<>>

\* pathExists: os.Stat succeeds on the path.
pathExists(path) == path \in dirs \cup files

conflictSuffix == <<95, 99, 111, 110, 102, 108, 105, 99, 116>>   \* "_conflict"

\* A loop that goes on past the retry limit until a candidate is free.
RECURSIVE tryCandidatesNoCap(_, _, _, _, _)
tryCandidatesNoCap(dir, baseName, ext, counter, probes) ==
    LET nameWithoutExt == SubSeq(baseName, 1, Len(baseName) - Len(ext))
        candidateName == nameWithoutExt \o <<95>> \o Itoa(counter) \o ext
        candidatePath == Join(dir, candidateName)
    IN  IF ~pathExists(candidatePath)
        THEN [path |-> candidatePath, probes |-> Append(probes, candidatePath)]
        ELSE tryCandidatesNoCap(dir, baseName, ext, counter + 1,
                                Append(probes, candidatePath))

\* The for loop of resolveNameCollision from counter on; probes are the paths
\* handed to pathExists so far.
RECURSIVE tryCandidates(_, _, _, _, _)
tryCandidates(dir, baseName, ext, counter, probes) ==
    IF counter > maxCollisionRetries
    THEN [path |-> Join(dir, baseName \o conflictSuffix), probes |-> probes]
    ELSE LET nameWithoutExt == SubSeq(baseName, 1, Len(baseName) - Len(ext))
             candidateName == nameWithoutExt \o <<95>> \o Itoa(counter) \o ext
             candidatePath == Join(dir, candidateName)
         IN  IF ~pathExists(candidatePath)
             THEN [path |-> candidatePath, probes |-> Append(probes, candidatePath)]
             ELSE tryCandidates(dir, baseName, ext, counter + 1,
                                Append(probes, candidatePath))

\* A resolveNameCollision that takes the target path as it is.
resolveNameCollisionNoProbe(targetPath, baseName) ==
    [path |-> targetPath, probes |-> <<>>]

\* resolveNameCollision: the path to rename to and the paths probed for it.
resolveNameCollision(targetPath, baseName) ==
    IF ~pathExists(targetPath)
    THEN [path |-> targetPath, probes |-> <<targetPath>>]
    ELSE tryCandidates(Dir(targetPath), baseName, Ext(baseName), 1, <<targetPath>>)

\* performRename: the error of os.Rename(oldPath, newPath) for a directory,
\* "nil" when it succeeds.  os.Rename refuses a newPath that is a directory
\* (EEXIST) and the system call one that is a regular file (ENOTDIR).
performRename(oldPath, newPath) ==
    IF Len(Base(newPath)) > maxNameLength THEN "file name too long"
    ELSE IF newPath \in dirs THEN "file exists"
    ELSE IF oldPath \notin dirs THEN "no such file or directory"
    ELSE IF oldPath \in norename THEN "permission denied"
    ELSE IF newPath \in files THEN "not a directory"
    ELSE "nil"

\* The nil *RenameResult; the service does not read it.
nilResult ==
    [Success |-> FALSE, OldPath |-> <<>>, NewPath |-> <<>>, WasRenamed |-> FALSE,
     Error |-> "nil"]

\* A ProcessRename that renames although the name is already the new name.
ProcessRenameAlways(folder, newName, dry) ==
    LET res == resolveNameCollision(Join(folder.Parent, newName), newName)
        e == IF dry THEN "nil" ELSE performRename(folder.Path, res.path)
    IN  [result |-> [Success |-> e = "nil", OldPath |-> folder.Path, NewPath |-> res.path,
                     WasRenamed |-> TRUE, Error |-> e],
         err |-> "nil", probes |-> res.probes,
         call |-> IF dry THEN <<>> ELSE <<folder.Path, res.path>>]

\* A ProcessRename that renames in a dry run too.
ProcessRenameIgnoresDryRun(folder, newName, dry) ==
    LET res == resolveNameCollision(Join(folder.Parent, newName), newName)
        e == performRename(folder.Path, res.path)
    IN  IF newName = folder.Name
        THEN [result |-> [Success |-> TRUE, OldPath |-> folder.Path,
                          NewPath |-> folder.Path, WasRenamed |-> FALSE, Error |-> "nil"],
              err |-> "nil", probes |-> <<>>, call |-> <<>>]
        ELSE [result |-> [Success |-> e = "nil", OldPath |-> folder.Path,
                          NewPath |-> res.path, WasRenamed |-> TRUE, Error |-> e],
              err |-> "nil", probes |-> res.probes, call |-> <<folder.Path, res.path>>]

\* A ProcessRename that hands a failed rename back as its function error.
ProcessRenamePropagates(folder, newName, dry) ==
    LET res == resolveNameCollision(Join(folder.Parent, newName), newName)
        e == performRename(folder.Path, res.path)
    IN  IF newName = folder.Name
        THEN [result |-> [Success |-> TRUE, OldPath |-> folder.Path,
                          NewPath |-> folder.Path, WasRenamed |-> FALSE, Error |-> "nil"],
              err |-> "nil", probes |-> <<>>, call |-> <<>>]
        ELSE IF dry
        THEN [result |-> [Success |-> TRUE, OldPath |-> folder.Path,
                          NewPath |-> res.path, WasRenamed |-> TRUE, Error |-> "nil"],
              err |-> "nil", probes |-> res.probes, call |-> <<>>]
        ELSE [result |-> IF e = "nil"
                         THEN [Success |-> TRUE, OldPath |-> folder.Path,
                               NewPath |-> res.path, WasRenamed |-> TRUE, Error |-> "nil"]
                         ELSE nilResult,
              err |-> e, probes |-> res.probes, call |-> <<folder.Path, res.path>>]

\* ProcessRename: the result and the function error it returns, the paths it
\* probed and the os.Rename call it issued (<<>> if none).
ProcessRename(folder, newName, dry) ==
    LET result == [Success |-> FALSE, OldPath |-> folder.Path, NewPath |-> <<>>,
                   WasRenamed |-> FALSE, Error |-> "nil"]
    IN  IF newName = folder.Name
        THEN [result |-> [result EXCEPT !.Success = TRUE, !.NewPath = folder.Path],
              err |-> "nil", probes |-> <<>>, call |-> <<>>]
        ELSE LET newPath == Join(folder.Parent, newName)
                 res == resolveNameCollision(newPath, newName)
                 finalPath == res.path
                 named == [result EXCEPT !.NewPath = finalPath, !.WasRenamed = TRUE]
             IN  IF dry
                 THEN [result |-> [named EXCEPT !.Success = TRUE],
                       err |-> "nil", probes |-> res.probes, call |-> <<>>]
                 ELSE LET e == performRename(folder.Path, finalPath)
                      IN  [result |-> IF e # "nil" THEN [named EXCEPT !.Error = e]
                                      ELSE [named EXCEPT !.Success = TRUE],
                           err |-> "nil", probes |-> res.probes,
                           call |-> <<folder.Path, finalPath>>]

(***************************************************************************)
(* internal/service: SanitizeService.SanitizeDirectory(rootPath, dryRun),   *)
(* wired as main.go wires it, with a recording reporter.                    *)
(***************************************************************************)
MaxSvcEntries == 3   \* directories and files below the root in a run

\* The names of the directories of a run: a, a., a.., b<1>, a.b.
SvcDirNames ==
    { <<97>>, <<97, 46>>, <<97, 46, 46>>, <<98, 60, 49, 62>>, <<97, 46, 98, 46>> }
\* The names of its files: a.b
SvcFileNames == { <<97, 46, 98>> }

\* The path a rename of oldPath to newPath gives to path.
rebase(path, oldPath, newPath) ==
    IF path = oldPath THEN newPath
    ELSE IF isBelow(path, oldPath)
         THEN newPath \o SubSeq(path, Len(oldPath) + 1, Len(path))
         ELSE path

\* The path a directory had before the run.
originOf(path) ==
    IF \E m \in moved : m[2] = path
    THEN (CHOOSE m \in moved : m[2] = path)[1]
    ELSE path

\* The processor of the service: the injected one fails on the paths of
\* procErr with a function error, as the processor of the service tests does.
processorCall(folder, newName, dry) ==
    IF folder.Path \in procErr
    THEN [result |-> nilResult, err |-> "processing error", probes |-> <<>>,
          call |-> <<>>]
    ELSE ProcessRename(folder, newName, dry)

\* An outcome rule that fails only a run in which every folder failed.
overallErrorAllFailed(errors, renamed, processed) ==
    IF errors > 0 /\ errors = processed /\ renamed = 0
    THEN "no successful renames"
    ELSE "nil"

\* The error SanitizeDirectory returns after the summary.
overallError(errors, renamed, processed) ==
    IF errors > 0 /\ renamed = 0 THEN "no successful renames" ELSE "nil"

InitService ==
    /\ dirs = {}
    /\ files = {}
    /\ noread = {}
    /\ skipInaccessible = FALSE
    /\ maxDepth = 0
    /\ queue = <<>>
    /\ folders = <<>>
    /\ collectErrors = <<>>
    /\ wpc = "setup"
    /\ sanitizeOff
    /\ rootKind = "dir"
    /\ norename = {}
    /\ moved = {}
    /\ procErr = {}
    /\ dryRun \in BOOLEAN
    /\ maxCollisionRetries \in {NewFileSystemProcessor(n) : n \in RetryCaps}
    /\ idx = 0
    /\ processedCount = 0
    /\ renamedCount = 0
    /\ errorCount = 0
    /\ skippedCount = 0
    /\ progressCalls = <<>>
    /\ errorCalls = <<>>
    /\ completeCalls = <<>>
    /\ results = <<>>
    /\ ret = "running"
    /\ svc = "running"

\* Before the run: the root is removed, or is a regular file.
ReplaceRoot(k) ==
    /\ wpc = "setup"
    /\ rootKind = "dir"
    /\ dirs = {} /\ files = {}
    /\ norename = {} /\ procErr = {}
    /\ rootKind' = k
    /\ UNCHANGED <<walkVars, sanVars, norename, moved, procErr, dryRun,
                   maxCollisionRetries, idx, processedCount, renamedCount, errorCount,
                   skippedCount, progressCalls, errorCalls, completeCalls, results,
                   ret, svc>>

\* Before the run: os.Rename will refuse to move one directory (a run has one
\* injected fault at most).
MakeUnrenamable(path) ==
    /\ wpc = "setup"
    /\ path \in dirs
    /\ norename = {} /\ procErr = {}
    /\ norename' = {path}
    /\ UNCHANGED <<walkVars, sanVars, rootKind, moved, procErr, dryRun,
                   maxCollisionRetries, idx, processedCount, renamedCount, errorCount,
                   skippedCount, progressCalls, errorCalls, completeCalls, results,
                   ret, svc>>

\* Before the run: the injected processor will fail on one folder.
InjectProcessorError(path) ==
    /\ wpc = "setup"
    /\ path \in dirs
    /\ norename = {} /\ procErr = {}
    /\ procErr' = {path}
    /\ UNCHANGED <<walkVars, sanVars, rootKind, norename, moved, dryRun,
                   maxCollisionRetries, idx, processedCount, renamedCount, errorCount,
                   skippedCount, progressCalls, errorCalls, completeCalls, results,
                   ret, svc>>

\* SanitizeDirectory when Walk returns an error: the error is reported and
\* returned.
WalkFails ==
    /\ svc = "running"
    /\ wpc = "setup"
    /\ validateRootPath # "nil"
    /\ errorCalls' = Append(errorCalls, <<"failed to walk directory tree",
                                          "invalid root path", validateRootPath>>)
    /\ ret' = "invalid root path"
    /\ svc' = "returned"
    /\ wpc' = "failed"
    /\ UNCHANGED <<fsVars, skipInaccessible, maxDepth, queue, folders, collectErrors,
                   sanVars, rootKind, norename, moved, procErr, dryRun,
                   maxCollisionRetries, idx, processedCount, renamedCount, errorCount,
                   skippedCount, progressCalls, completeCalls, results>>

\* A loop head that reports the index i instead of i + 1.
ReportProgressFromZero ==
    /\ svc = "running"
    /\ wpc = "done"
    /\ idx < Len(folders)
    /\ Len(progressCalls) = idx
    /\ progressCalls' = Append(progressCalls,
                               [current |-> idx, total |-> Len(folders),
                                message |-> <<"Processing: ", folders[idx + 1].Name>>])
    /\ UNCHANGED <<walkVars, sanVars, rootKind, norename, moved, procErr, dryRun,
                   maxCollisionRetries, idx, processedCount, renamedCount, errorCount,
                   skippedCount, errorCalls, completeCalls, results, ret, svc>>

\* The head of the loop body for folders[idx + 1]: ReportProgress(i + 1,
\* totalFolders, "Processing: " + folder.Name).
ReportProgress ==
    /\ svc = "running"
    /\ wpc = "done"
    /\ idx < Len(folders)
    /\ Len(progressCalls) = idx
    /\ progressCalls' = Append(progressCalls,
                               [current |-> idx + 1, total |-> Len(folders),
                                message |-> <<"Processing: ", folders[idx + 1].Name>>])
    /\ UNCHANGED <<walkVars, sanVars, rootKind, norename, moved, procErr, dryRun,
                   maxCollisionRetries, idx, processedCount, renamedCount, errorCount,
                   skippedCount, errorCalls, completeCalls, results, ret, svc>>

\* A tally that looks at WasRenamed before it looks at the failure.
tallyRenamedFirst(err, result) ==
    IF err # "nil" THEN "error"
    ELSE IF result.WasRenamed THEN "renamed"
    ELSE IF result.Error # "nil" THEN "error"
    ELSE "skipped"

\* A tally that counts a failed rename nowhere.
tallyDropsFailures(err, result) ==
    IF err # "nil" THEN "error"
    ELSE IF result.Error # "nil" THEN "none"
    ELSE IF result.WasRenamed /\ result.Success THEN "renamed"
    ELSE IF ~result.WasRenamed THEN "skipped"
    ELSE "none"

\* The counter that one loop iteration increments besides processedCount,
\* from the two values ProcessRename returned: the if/else-if chain of
\* SanitizeDirectory.
tally(err, result) ==
    IF err # "nil" THEN "error"
    ELSE IF result.Error # "nil" THEN "error"
    ELSE IF result.WasRenamed /\ result.Success THEN "renamed"
    ELSE IF ~result.WasRenamed THEN "skipped"
    ELSE "none"

\* The rest of the loop body for folders[idx + 1]: SanitizeName, ProcessRename
\* with the rename it performs on the file system, and the counting.
ProcessEntry ==
    /\ svc = "running"
    /\ wpc = "done"
    /\ idx < Len(folders)
    /\ Len(progressCalls) = idx + 1
    /\ LET folder == folders[idx + 1]
           sanitizedName == SanitizeName(folder.Name)
           r == processorCall(folder, sanitizedName, dryRun)
           result == r.result
           done == r.err = "nil" /\ r.call # <<>> /\ result.Error = "nil"
           oldPath == folder.Path
           newPath == result.NewPath
           carried == {d \in dirs : d = oldPath \/ isBelow(d, oldPath)}
       IN  /\ results' = Append(results,
                  [folder |-> folder, newName |-> sanitizedName, result |-> result,
                   err |-> r.err, probes |-> r.probes, call |-> r.call,
                   existed |-> r.call # <<>> /\ pathExists(r.call[2])])
           /\ IF done
              THEN /\ dirs' = {rebase(d, oldPath, newPath) : d \in dirs}
                   /\ files' = {rebase(f, oldPath, newPath) : f \in files}
                   /\ noread' = {<<rebase(e[1], oldPath, newPath), e[2]>> : e \in noread}
                   /\ norename' = {rebase(d, oldPath, newPath) : d \in norename}
                   /\ moved' = {m \in moved : m[2] \notin carried}
                               \cup {<<originOf(d), rebase(d, oldPath, newPath)>> :
                                        d \in carried}
              ELSE UNCHANGED <<dirs, files, noread, norename, moved>>
           /\ processedCount' = processedCount + 1
           /\ errorCalls' =
                  IF r.err # "nil"
                  THEN Append(errorCalls, <<"failed to process folder", folder.Path, r.err>>)
                  ELSE IF result.Error # "nil"
                  THEN Append(errorCalls, <<"rename error for", folder.Path, result.Error>>)
                  ELSE errorCalls
           /\ errorCount' = errorCount + (IF tally(r.err, result) = "error" THEN 1 ELSE 0)
           /\ renamedCount' = renamedCount + (IF tally(r.err, result) = "renamed" THEN 1 ELSE 0)
           /\ skippedCount' = skippedCount + (IF tally(r.err, result) = "skipped" THEN 1 ELSE 0)
    /\ idx' = idx + 1
    /\ UNCHANGED <<skipInaccessible, maxDepth, queue, folders, collectErrors, wpc,
                   sanVars, rootKind, procErr, dryRun, maxCollisionRetries,
                   progressCalls, completeCalls, ret, svc>>

\* After the loop: the summary goes to ReportComplete and SanitizeDirectory
\* returns.
Complete ==
    /\ svc = "running"
    /\ wpc = "done"
    /\ idx = Len(folders)
    /\ completeCalls' = Append(completeCalls,
           [TotalFolders |-> Len(folders), ProcessedCount |-> processedCount,
            RenamedCount |-> renamedCount, ErrorCount |-> errorCount,
            SkippedCount |-> skippedCount])
    /\ ret' = overallError(errorCount, renamedCount, processedCount)
    /\ svc' = "returned"
    /\ UNCHANGED <<walkVars, sanVars, rootKind, norename, moved, procErr, dryRun,
                   maxCollisionRetries, idx, processedCount, renamedCount, errorCount,
                   skippedCount, progressCalls, errorCalls, results>>

NextService ==
    \/ \E parent \in dirs \cup {rootPath}, nm \in SvcDirNames :
           Cardinality(dirs \cup files) < MaxSvcEntries /\ Mkdir(parent, nm)
    \/ \E parent \in dirs \cup {rootPath}, nm \in SvcFileNames :
           Cardinality(dirs \cup files) < MaxSvcEntries /\ Mkfile(parent, nm)
    \/ \E k \in {"file", "missing"} : ReplaceRoot(k)
    \/ \E path \in dirs : MakeUnrenamable(path)
    \/ \E path \in dirs : InjectProcessorError(path)
    \/ StartWalk(TRUE, 0)
    \/ VisitNext
    \/ WalkFails
    \/ ReportProgress
    \/ ProcessEntry
    \/ Complete

SpecService == InitService /\ [][NextService]_vars

(***************************************************************************)
(* One directory of the root on its way through the loop body of            *)
(* SanitizeDirectory, next to directories that hold the names the processor *)
(* would give it.  The names are short ones and names at the length limit.  *)
(***************************************************************************)
MaxOccupied == 3   \* directories that take the processor's next choice

Fill(n) == [i \in 1..n |-> 97]

\* The names of the directory: a., CON, b<1>, a.b., and 254 and 246 times a
\* followed by a forbidden character.
AssignNames ==
    { <<97, 46>>, <<67, 79, 78>>, <<98, 60, 49, 62>>, <<97, 46, 98, 46>>,
      Fill(maxNameLength - 1) \o <<60>>,
      Fill(maxNameLength - Len(conflictSuffix)) \o <<58>> }

InitAssign ==
    /\ name \in AssignNames
    /\ out = <<>>
    /\ out2 = <<>>
    /\ spc = "input"
    /\ kind = "assign"
    /\ extra = 0
    /\ dirs = {Join(rootPath, name)}
    /\ files = {}
    /\ noread = {}
    /\ skipInaccessible = FALSE
    /\ maxDepth = 0
    /\ queue = <<>>
    /\ folders = <<>>
    /\ collectErrors = <<>>
    /\ wpc = "off"
    /\ rootKind = "dir"
    /\ norename = {}
    /\ moved = {}
    /\ procErr = {}
    /\ dryRun \in BOOLEAN
    /\ maxCollisionRetries \in {NewFileSystemProcessor(n) : n \in RetryCaps}
    /\ idx = 0
    /\ processedCount = 0
    /\ renamedCount = 0
    /\ errorCount = 0
    /\ skippedCount = 0
    /\ progressCalls = <<>>
    /\ errorCalls = <<>>
    /\ completeCalls = <<>>
    /\ results = <<>>
    /\ ret = "running"
    /\ svc = "off"

\* Before the call: another directory takes the path the processor would
\* choose now, if the file system can hold a name of that length.
Occupy ==
    /\ kind = "assign"
    /\ spc = "input"
    /\ Cardinality(dirs) <= MaxOccupied
    /\ LET newName == SanitizeName(name)
           choice == resolveNameCollision(Join(rootPath, newName), newName).path
       IN  /\ choice \notin dirs
           /\ Len(Base(choice)) <= maxNameLength
           /\ dirs' = dirs \cup {choice}
    /\ UNCHANGED <<files, noread, skipInaccessible, maxDepth, queue, folders,
                   collectErrors, wpc, sanVars, svcVars>>

\* The loop body for the directory: SanitizeName, then ProcessRename.
AssignRename ==
    /\ kind = "assign"
    /\ spc = "input"
    /\ LET folder == extractFolderInfoFromPath(Join(rootPath, name), rootPath)
           sanitizedName == SanitizeName(name)
           r == ProcessRename(folder, sanitizedName, dryRun)
           done == r.call # <<>> /\ r.result.Error = "nil"
       IN  /\ out' = sanitizedName
           /\ results' = <<[folder |-> folder, newName |-> sanitizedName,
                            result |-> r.result, err |-> r.err, probes |-> r.probes,
                            call |-> r.call]>>
           /\ dirs' = IF done THEN (dirs \ {folder.Path}) \cup {r.result.NewPath}
                      ELSE dirs
    /\ spc' = "assigned"
    /\ UNCHANGED <<name, out2, kind, extra, files, noread, skipInaccessible, maxDepth,
                   queue, folders, collectErrors, wpc, rootKind, norename, moved,
                   procErr, dryRun, maxCollisionRetries, idx, processedCount,
                   renamedCount, errorCount, skippedCount, progressCalls, errorCalls,
                   completeCalls, ret, svc>>

NextAssign ==
    \/ Occupy
    \/ AssignRename

SpecAssign == InitAssign /\ [][NextAssign]_vars

(***************************************************************************)
(* Properties of SanitizeName, checked under SpecSanitize.                  *)
(***************************************************************************)
forbiddenSet == {60, 62, 58, 34, 124, 63, 42, 92, 47}

\* C1: Sanitize is idempotent: Sanitize(Sanitize(s)) = Sanitize(s) for every
\* input s, inputs longer than 255 characters and reserved names included.
C1_Idempotent == spc = "resanitized" => out2 = out

\* C2: Sanitize(s) never ends with a space or a period, on every path through
\* the function, the truncation path included.
C2_NoTrailingSpaceOrPeriod ==
    spc = "sanitized" => out # <<>> /\ out[Len(out)] \notin {32, 46}

\* C3: Sanitize(s) is non-empty, has at most 255 characters, and contains no
\* control character (0..31) and no forbidden character.
C3_NoIllegalOutput ==
    spc = "sanitized" =>
        /\ out # <<>>
        /\ Len(out) <= 255
        /\ \A i \in 1..Len(out) : out[i] \notin 0..31 /\ out[i] \notin forbiddenSet

\* C3 witness: a sanitized name longer than 255 characters that held a
\* forbidden character and a control character.
C3_Witness ==
    /\ spc = "sanitized"
    /\ Len(name) > 255
    /\ \E i \in 1..Len(name) : name[i] \in forbiddenSet
    /\ \E i \in 1..Len(name) : name[i] \in 0..31

\* C4 as stated: every character of Sanitize(s) is printable ASCII, 32..126.
C4_PrintableASCII ==
    spc = "sanitized" => \A i \in 1..Len(out) : out[i] \in 32..126

\* C4 amended: every character of Sanitize(s) is ASCII in 32..127: no
\* non-ASCII character and no control character 0..31 survives, and DEL (127)
\* is the one non-printable character that can, where the input holds it.
C4_AsciiOrDel ==
    spc = "sanitized" =>
        /\ \A i \in 1..Len(out) : out[i] \in 32..127
        /\ (\E i \in 1..Len(out) : out[i] = 127) =>
               (\E i \in 1..Len(name) : name[i] = 127)

\* C4 witness: a name with DEL and a non-ASCII character, DEL kept.
C4_Witness ==
    /\ spc = "sanitized"
    /\ \E i \in 1..Len(name) : name[i] > 127
    /\ \E i \in 1..Len(name) : name[i] = 127
    /\ \E i \in 1..Len(out) : out[i] = 127

\* C5: a name that after mapping and trimming is a reserved name, ignoring
\* case, comes back in its own letter case with exactly one '_' appended; any
\* other name that fits comes back without a suffix; no output is a bare
\* reserved name.
C5_ReservedNames ==
    spc = "sanitized" =>
        LET t == TrimRight(TrimSpace(processCharacters(removeControlChars(name))),
                           {46, 32})
        IN  /\ ToUpper(t) \in reservedNames => out = t \o <<95>>
            /\ (t # <<>> /\ ToUpper(t) \notin reservedNames /\ Len(t) <= 255) => out = t
            /\ ToUpper(out) \notin reservedNames

\* C5 witness: " con." is sanitized to "con_".
C5_Witness ==
    /\ spc = "sanitized"
    /\ name = <<32, 99, 111, 110, 46>>
    /\ out = <<99, 111, 110, 95>>

\* C6: a name that after mapping, trimming and reserved-name handling is longer
\* than 255 characters comes back as its first 252 characters plus "...", 255
\* characters in all; a name of 255 characters or fewer is not truncated.
C6_Truncation ==
    spc = "sanitized" =>
        LET r == reservedRule(
                     TrimRight(TrimSpace(processCharacters(removeControlChars(name))),
                               {46, 32}))
        IN  /\ Len(r) > 255 =>
                   /\ out = SubSeq(r, 1, 252) \o <<46, 46, 46>>
                   /\ Len(out) = 255
            /\ (r # <<>> /\ Len(r) <= 255) => out = r

\* C6 witness: 300 'a' characters give 252 'a' characters plus "...".
C6_Witness ==
    /\ spc = "sanitized"
    /\ name = [i \in 1..300 |-> 97]
    /\ out = [i \in 1..255 |-> IF i <= 252 THEN 97 ELSE 46]

\* C7 as stated: the empty string and every name of periods, spaces and
\* control characters only give "_empty_"; a name of forbidden characters only
\* gives as many underscores as it has characters.
C7_Placeholder ==
    spc = "sanitized" =>
        /\ (\A i \in 1..Len(name) : name[i] \in {46, 32} \cup (0..31)) =>
               out = <<95, 101, 109, 112, 116, 121, 95>>
        /\ (name # <<>> /\ \A i \in 1..Len(name) : name[i] \in forbiddenSet) =>
               out = [i \in 1..Len(name) |-> 95]

\* C7 amended: as stated, but a name of forbidden characters only gives as many
\* underscores as it has characters when it has at most 255 of them, and 252
\* underscores plus "..." when it has more.
C7_PlaceholderUpTo255 ==
    spc = "sanitized" =>
        /\ (\A i \in 1..Len(name) : name[i] \in {46, 32} \cup (0..31)) =>
               out = <<95, 101, 109, 112, 116, 121, 95>>
        /\ (name # <<>> /\ \A i \in 1..Len(name) : name[i] \in forbiddenSet) =>
               out = IF Len(name) <= 255
                     THEN [i \in 1..Len(name) |-> 95]
                     ELSE [i \in 1..255 |-> IF i <= 252 THEN 95 ELSE 46]

\* C7 witness: a name of periods, spaces and control characters, none of the
\* three missing, has been given the placeholder.
C7_Witness ==
    /\ spc = "sanitized"
    /\ \A i \in 1..Len(name) : name[i] \in {46, 32} \cup (0..31)
    /\ \E i \in 1..Len(name) : name[i] = 46
    /\ \E i \in 1..Len(name) : name[i] = 32
    /\ \E i \in 1..Len(name) : name[i] \in 0..31
    /\ out = <<95, 101, 109, 112, 116, 121, 95>>

\* C8: every entry of the Latin-1 lookup table is applied by Sanitize: the
\* one-character name of a table key gives the key's table value.
C8_LatinTableApplied ==
    spc = "sanitized" =>
        \A p \in replacements : name = <<p[1]>> => out = <<p[2]>>

\* C9: the README's mapping table: cafe, naive and resume lose their accents
\* and the Cyrillic Moskva gives "AAAAAA".
C9_ReadmeMapping ==
    spc = "sanitized" =>
        /\ name = <<99, 97, 102, 233>> => out = <<99, 97, 102, 101>>
        /\ name = <<110, 97, 239, 118, 101>> => out = <<110, 97, 105, 118, 101>>
        /\ name = <<114, 233, 115, 117, 109, 233>> => out = <<114, 101, 115, 117, 109, 101>>
        /\ name = <<1052, 1086, 1089, 1082, 1074, 1072>> => out = <<65, 65, 65, 65, 65, 65>>

(***************************************************************************)
(* Properties of Walk, checked under SpecWalk.                              *)
(***************************************************************************)
\* C10: the list Walk returns, which SanitizeDirectory processes front to
\* back, is in order of non-increasing depth, ties in ascending path order;
\* so wherever X's path is a strict ancestor of Y's path, X's depth is less
\* than Y's and Y comes strictly before X.
C10_BottomUpOrder ==
    wpc = "done" =>
        /\ \A i, j \in 1..Len(folders) :
               i < j => \/ folders[i].Depth > folders[j].Depth
                        \/ /\ folders[i].Depth = folders[j].Depth
                           /\ StrLess(folders[i].Path, folders[j].Path)
        /\ \A x, y \in 1..Len(folders) :
               isBelow(folders[y].Path, folders[x].Path) =>
                   folders[x].Depth < folders[y].Depth /\ y < x

\* C10 witness: Walk has returned a list with an ancestor and its descendant
\* and with two entries of the same depth.
C10_Witness ==
    /\ wpc = "done"
    /\ \E x, y \in 1..Len(folders) : isBelow(folders[y].Path, folders[x].Path)
    /\ \E i, j \in 1..Len(folders) : i # j /\ folders[i].Depth = folders[j].Depth

(***************************************************************************)
(* Properties of ProcessRename and SanitizeDirectory, checked under         *)
(* SpecService.                                                             *)
(***************************************************************************)
\* C11: after a run that is not a dry run, the folders of every group of
\* siblings with the same sanitized name, the group smaller than the retry
\* limit, all still exist, under pairwise distinct names of one parent, and
\* no os.Rename of the group was issued onto a path that existed then.
C11_CollisionSafety ==
    (svc = "returned" /\ wpc = "done" /\ ~dryRun) =>
        \A i \in 1..Len(results) :
            LET group == {j \in 1..Len(results) :
                             /\ results[j].folder.Parent = results[i].folder.Parent
                             /\ results[j].newName = results[i].newName}
            IN  (Cardinality(group) >= 2 /\ Cardinality(group) < maxCollisionRetries) =>
                    /\ \A j \in group : ~results[j].existed
                    /\ \A j \in group :
                           \E d \in dirs : originOf(d) = results[j].folder.Path
                    /\ \A j, k \in group :
                           \A d, e \in dirs :
                               ( /\ j # k
                                 /\ originOf(d) = results[j].folder.Path
                                 /\ originOf(e) = results[k].folder.Path )
                               => Dir(d) = Dir(e) /\ Base(d) # Base(e)

\* C11 witness: a finished run that renamed two siblings with the same
\* sanitized name.
C11_Witness ==
    /\ svc = "returned" /\ wpc = "done" /\ ~dryRun
    /\ \E i, j \in 1..Len(results) :
           /\ i # j
           /\ results[i].folder.Parent = results[j].folder.Parent
           /\ results[i].newName = results[j].newName
           /\ results[i].call # <<>> /\ results[i].result.Success
           /\ results[j].call # <<>> /\ results[j].result.Success
           /\ maxCollisionRetries > 2

\* C12: a ProcessRename call whose new name is the folder's name returns
\* Success, not WasRenamed, NewPath = the folder's path and no function error;
\* it probes no path and issues no rename, and the step leaves the file
\* system as it was.
C12_NoOpStability ==
    [][ ( /\ idx' = idx + 1
          /\ folders[idx'].Path \notin procErr
          /\ SanitizeName(folders[idx'].Name) = folders[idx'].Name )
        => /\ results'[idx'].err = "nil"
           /\ results'[idx'].result.Success
           /\ ~results'[idx'].result.WasRenamed
           /\ results'[idx'].result.NewPath = folders[idx'].Path
           /\ results'[idx'].result.Error = "nil"
           /\ results'[idx'].probes = <<>>
           /\ results'[idx'].call = <<>>
           /\ UNCHANGED <<dirs, files, noread, norename, moved>> ]_vars

\* C12 witness: ProcessRename was called, not in a dry run, for a folder whose
\* name is already its sanitized name while a sibling of it was renamed.
C12_Witness ==
    /\ ~dryRun
    /\ \E i, j \in 1..Len(results) :
           /\ results[i].folder.Path \notin procErr
           /\ results[i].newName = results[i].folder.Name
           /\ results[j].folder.Parent = results[i].folder.Parent
           /\ results[j].call # <<>>

C14_Simulation ==
    [][ (dryRun /\ wpc # "setup")
        => /\ UNCHANGED <<dirs, files, noread, norename, moved>>
           /\ ( /\ idx' = idx + 1
                /\ folders[idx'].Path \notin procErr
                /\ SanitizeName(folders[idx'].Name) # folders[idx'].Name )
              => LET newName == SanitizeName(folders[idx'].Name)
                     candidate == resolveNameCollision(
                                      Join(folders[idx'].Parent, newName), newName).path
                 IN  /\ results'[idx'].err = "nil"
                     /\ results'[idx'].result.Success
                     /\ results'[idx'].result.WasRenamed
                     /\ results'[idx'].result.Error = "nil"
                     /\ results'[idx'].result.NewPath = candidate
                     /\ maxCollisionRetries > MaxSvcEntries => ~pathExists(candidate)
                     /\ results'[idx'].call = <<>> ]_vars

\* C14 witness: a dry run has returned after a ProcessRename call that
\* resolved a collision.
C14_Witness ==
    /\ dryRun /\ svc = "returned" /\ wpc = "done"
    /\ \E i \in 1..Len(results) :
           /\ results[i].result.WasRenamed /\ results[i].result.Success
           /\ Len(results[i].probes) > 1

\* C15: a ProcessRename call whose os.Rename fails returns no function error
\* and a result without Success and with Error set; and when
\* SanitizeDirectory returns after Walk succeeded, ProcessRename has been
\* called once for every folder of the list, in order, whatever failed.
C15_FailureRecoverable ==
    /\ [][ ( /\ idx' = idx + 1
             /\ ~dryRun
             /\ folders[idx'].Path \notin procErr
             /\ folders[idx'].Path \in norename
             /\ SanitizeName(folders[idx'].Name) # folders[idx'].Name )
           => /\ results'[idx'].call # <<>>
              /\ results'[idx'].err = "nil"
              /\ ~results'[idx'].result.Success
              /\ results'[idx'].result.Error # "nil" ]_vars
    /\ []( (svc = "returned" /\ wpc = "done")
           => /\ Len(results) = Len(folders)
              /\ \A i \in 1..Len(folders) : results[i].folder = folders[i] )

\* C15 witness: the run has returned; a folder's rename failed and a folder
\* after it in the list was renamed.
C15_Witness ==
    /\ svc = "returned" /\ wpc = "done"
    /\ \E i, j \in 1..Len(results) :
           /\ i < j
           /\ results[i].call # <<>> /\ results[i].result.Error # "nil"
           /\ results[j].call # <<>> /\ results[j].result.Success

\* C16 (as claimed): SanitizeDirectory returns an error exactly when there is
\* a processed folder, every processed folder failed and none was renamed.
C16_FailsOnlyIfAllFailed ==
    (svc = "returned" /\ wpc = "done") =>
        ( ret # "nil"
          <=> /\ Len(results) > 0
              /\ \A i \in 1..Len(results) :
                     results[i].err # "nil" \/ results[i].result.Error # "nil" )

\* C16 (amended): SanitizeDirectory returns an error exactly when at least
\* one processed folder failed and none was renamed, however many were
\* skipped; a run over an empty list returns nil.
C16_FailsIfSomeFailedNoneRenamed ==
    (svc = "returned" /\ wpc = "done") =>
        ( ret # "nil"
          <=> /\ \E i \in 1..Len(results) :
                     results[i].err # "nil" \/ results[i].result.Error # "nil"
              /\ \A i \in 1..Len(results) :
                     ~( /\ results[i].err = "nil" /\ results[i].result.Error = "nil"
                        /\ results[i].result.WasRenamed /\ results[i].result.Success ) )

\* C16 witness: a run has returned an error although a folder of it was
\* skipped: one folder failed, none was renamed.
C16_Witness ==
    /\ svc = "returned" /\ wpc = "done"
    /\ ret # "nil"
    /\ \E i \in 1..Len(results) :
           results[i].err = "nil" /\ ~results[i].result.WasRenamed

\* C17: when the root does not exist or is not a directory, Walk returns an
\* error and collects nothing, and SanitizeDirectory reports that error once
\* and returns it: no ProcessRename call, no progress or completion event, no
\* rename.
C17_FatalSetupErrors ==
    /\ rootKind # "dir" => wpc \in {"setup", "failed"} /\ folders = <<>>
    /\ (svc = "returned" /\ rootKind # "dir")
       => /\ ret = "invalid root path"
          /\ Len(errorCalls) = 1
          /\ errorCalls[1] = <<"failed to walk directory tree", "invalid root path",
                               IF rootKind = "missing" THEN "path not accessible"
                               ELSE "path is not a directory">>
          /\ results = <<>> /\ processedCount = 0
          /\ progressCalls = <<>> /\ completeCalls = <<>>
          /\ moved = {} /\ dirs = {} /\ files = {}

\* C17 witness: SanitizeDirectory has returned for a root that is a regular
\* file.
C17_Witness == svc = "returned" /\ rootKind = "file"

\* C18: a ProcessRename call that needs a rename takes parent/newName when no
\* entry exists there; otherwise, with ext the part of newName from its last
\* '.' on (empty without '.') and stem the rest, it takes parent/stem_k ext
\* for the smallest k of 1..limit with no entry at that path, when there is
\* one: a.b becomes a_1.b, not a.b_1.
C18_CollisionNaming ==
    [][ ( /\ idx' = idx + 1
          /\ folders[idx'].Path \notin procErr
          /\ SanitizeName(folders[idx'].Name) # folders[idx'].Name )
        => LET parent == folders[idx'].Parent
               newName == SanitizeName(folders[idx'].Name)
               dots == {i \in 1..Len(newName) : newName[i] = 46}
               cut == IF dots = {} THEN Len(newName) + 1
                      ELSE CHOOSE i \in dots : \A j \in dots : j <= i
               stem == SubSeq(newName, 1, cut - 1)
               ext == SubSeq(newName, cut, Len(newName))
               numbered(k) == Join(parent, stem \o <<95>> \o Itoa(k) \o ext)
               free(path) == path \notin dirs \cup files
               finalPath == results'[idx'].result.NewPath
           IN  /\ free(Join(parent, newName)) => finalPath = Join(parent, newName)
               /\ ~free(Join(parent, newName)) =>
                      \A k \in 1..Cardinality(dirs \cup files) :
                          ( /\ k <= maxCollisionRetries
                            /\ free(numbered(k))
                            /\ \A j \in 1..(k - 1) : ~free(numbered(j)) )
                          => finalPath = numbered(k)
               /\ ( /\ newName = <<97, 46, 98>>
                    /\ ~free(Join(parent, newName))
                    /\ maxCollisionRetries >= 1 )
                  => finalPath = Join(parent, <<97, 95, 49, 46, 98>>) ]_vars

\* C18 witness: a.b. was processed while a.b existed beside it, and its new
\* path is a_1.b.
C18_Witness ==
    \E i \in 1..Len(results) :
        /\ results[i].folder.Name = <<97, 46, 98, 46>>
        /\ Len(results[i].probes) = 2
        /\ results[i].result.NewPath =
               Join(results[i].folder.Parent, <<97, 95, 49, 46, 98>>)

\* C19: once Walk has returned n folders, the i-th ReportProgress call carries
\* i, n and the name of the i-th folder; the call for a folder precedes its
\* ProcessRename call; ReportComplete is called once, with the summary, when
\* every folder has been processed, and then n progress calls were made.
C19_ProgressProtocol ==
    wpc = "done" =>
        /\ Len(results) = idx
        /\ Len(progressCalls) \in {idx, idx + 1}
        /\ Len(progressCalls) <= Len(folders)
        /\ \A i \in 1..Len(progressCalls) :
               /\ progressCalls[i].current = i
               /\ progressCalls[i].total = Len(folders)
               /\ progressCalls[i].message = <<"Processing: ", folders[i].Name>>
        /\ svc # "returned" => completeCalls = <<>>
        /\ svc = "returned" =>
               /\ Len(progressCalls) = Len(folders)
               /\ Len(results) = Len(folders)
               /\ Len(completeCalls) = 1
               /\ completeCalls[1].TotalFolders = Len(folders)
               /\ completeCalls[1].ProcessedCount = Len(folders)

\* C19 witness: a run over three folders has returned.
C19_Witness == svc = "returned" /\ wpc = "done" /\ Len(folders) = 3

C22_CountingRules ==
    [][ /\ processedCount' >= processedCount
        /\ renamedCount' >= renamedCount
        /\ skippedCount' >= skippedCount
        /\ errorCount' >= errorCount
        /\ (svc = "running" /\ wpc = "done" /\ idx' = idx)
           => UNCHANGED <<processedCount, renamedCount, skippedCount, errorCount>>
        /\ idx' = idx + 1
           => LET r == results'[idx']
                  failed == r.err # "nil" \/ r.result.Error # "nil"
                  one(b) == IF b THEN 1 ELSE 0
              IN  /\ processedCount' = processedCount + 1
                  /\ errorCount' = errorCount + one(failed)
                  /\ renamedCount' = renamedCount
                         + one(~failed /\ r.result.Success /\ r.result.WasRenamed)
                  /\ skippedCount' = skippedCount + one(~failed /\ ~r.result.WasRenamed)
      ]_vars

\* C22 witness: a finished run that counted one renamed, one skipped and one
\* errored entry.
C22_Witness ==
    /\ svc = "returned"
    /\ processedCount = 3
    /\ renamedCount = 1
    /\ skippedCount = 1
    /\ errorCount = 1

\* C29: with the real processor (no injected processor error) the summary
\* of a run whose walk succeeded has ProcessedCount = TotalFolders = the
\* number of collected entries, every entry was submitted exactly once, in
\* order, and RenamedCount + SkippedCount + ErrorCount = ProcessedCount.
C29_SummaryTotals ==
    (svc = "returned" /\ wpc = "done" /\ procErr = {})
    => /\ Len(completeCalls) = 1
       /\ completeCalls[1].TotalFolders = Len(folders)
       /\ completeCalls[1].ProcessedCount = completeCalls[1].TotalFolders
       /\ Len(results) = Len(folders)
       /\ \A i \in 1..Len(folders) : results[i].folder = folders[i]
       /\ completeCalls[1].RenamedCount + completeCalls[1].SkippedCount
              + completeCalls[1].ErrorCount = completeCalls[1].ProcessedCount

\* C29 witness: a real-processor run over three entries with a renamed, a
\* skipped and a failed one has returned.
C29_Witness ==
    /\ svc = "returned"
    /\ procErr = {}
    /\ Len(completeCalls) = 1
    /\ completeCalls[1].TotalFolders = 3
    /\ completeCalls[1].RenamedCount = 1
    /\ completeCalls[1].SkippedCount = 1
    /\ completeCalls[1].ErrorCount = 1

\* C30: in a non-simulated run, when an entry is submitted to ProcessRename
\* neither it nor any directory above it below the root has been renamed:
\* the recorded Path is still a directory and is the one that was collected,
\* so is the recorded Parent, and no rename fails for a missing source.
C30_RecordedPathsValid ==
    [][ (idx' = idx + 1 /\ ~dryRun)
        => LET folder == folders[idx']
           IN  /\ folder.Path \in dirs
               /\ originOf(folder.Path) = folder.Path
               /\ \A d \in dirs : isBelow(folder.Path, d) => originOf(d) = d
               /\ \A i \in 1..idx : isBelow(folder.Path, folders[i].Path)
                                    => results[i].call = <<>>
                                       \/ results[i].result.Error # "nil"
               /\ folder.Parent = rootPath
                  \/ (folder.Parent \in dirs /\ originOf(folder.Parent) = folder.Parent)
               /\ results'[idx'].result.Error # "no such file or directory"
      ]_vars

\* C30 witness: a directory was renamed after a directory below it had
\* been renamed, both successfully.
C30_Witness ==
    /\ ~dryRun
    /\ \E i, j \in 1..Len(results) :
           /\ i < j
           /\ isBelow(results[i].folder.Path, results[j].folder.Path)
           /\ results[i].call # <<>> /\ results[i].result.Success
           /\ results[j].call # <<>> /\ results[j].result.Success

\* C28: a simulated run never reports the same final path for two different
\* entries (as a real run, which would give colliding siblings different
\* names, never does).
C28_DryRunFidelity ==
    (svc = "returned" /\ dryRun)
    => \A i, j \in 1..Len(results) :
           (i # j /\ results[i].err = "nil" /\ results[j].err = "nil")
           => results[i].result.NewPath # results[j].result.NewPath

(***************************************************************************)
(* More properties of the walker, checked under SpecWalk.                   *)
(***************************************************************************)
\* The directories at or above which a path lies, the root included.
ancestorsOf(path) == {d \in dirs \cup {rootPath} : isBelow(path, d)}

\* The paths of the collected folders.
collectedPaths == {folders[i].Path : i \in 1..Len(folders)}

listed(path) == maxDepth = 0 \/ Cardinality(ancestorsOf(path)) <= maxDepth + 1

\* A directory within the depth limit.
withinLimit(path) == maxDepth = 0 \/ Cardinality(ancestorsOf(path)) <= maxDepth

accessible(path) ==
    \A e \in noread : e[1] # path /\ ~isBelow(path, e[1])

\* C25: with a positive maxDepth the list has no entry deeper than maxDepth
\* and nothing below such a directory, and it has every accessible directory
\* of depth at most maxDepth; with maxDepth 0 it has every accessible
\* directory.
C25_MaxDepth ==
    wpc = "done"
    => /\ maxDepth > 0 => \A i \in 1..Len(folders) : folders[i].Depth <= maxDepth
       /\ \A d \in dirs : (accessible(d) /\ withinLimit(d)) => d \in collectedPaths

\* C26: no two entries of the list have the same path, during the walk and
\* in the list Walk returns, with skipInaccessible on and off and also when a
\* directory is appended by the error branch of the callback.
C26_NoDuplicates ==
    \A i, j \in 1..Len(folders) : folders[i].Path = folders[j].Path => i = j

\* C26 witness: a finished walk without skipInaccessible returned an
\* unreadable directory, appended by the error branch, among other entries.
C26_Witness ==
    /\ wpc = "done"
    /\ ~skipInaccessible
    /\ Len(folders) >= 2
    /\ \E e \in noread : e[1] \in collectedPaths

(***************************************************************************)
(* The names the processor assigns, checked under SpecAssign.               *)
(***************************************************************************)
\* C27: the final name ProcessRename chooses for a sanitized name, a numbered
\* candidate or the _conflict fallback included, has at most 255 characters,
\* does not end in a period or a space and is not a reserved name.
C27_AssignedNamesCompliant ==
    (spc = "assigned" /\ results[1].result.WasRenamed)
    => LET final == Base(results[1].result.NewPath)
       IN  /\ final # <<>>
           /\ Len(final) <= maxNameLength
           /\ final[Len(final)] \notin {32, 46}
           /\ ToUpper(final) \notin reservedNames

====
